---- MODULE Spec2Model ----
(***************************************************************************)
(* A model of the interface version adapter (src/src/lib.ts).              *)
(*                                                                         *)
(* Schema objects live in an arena: schemas[i] is the i-th Schema object   *)
(* ever constructed, and the index i is the object's identity (the code    *)
(* compares Schema objects with ===).  schemas[1] is emptySchema.          *)
(* One instance (one ledger) is modelled; a view is a Proxy whose Handler  *)
(* holds the shared ledger and a version, so a view is identified by its   *)
(* version and views is the set of versions that have a view.  strayViews  *)
(* is the set of versions that have a view whose Handler holds no ledger   *)
(* (undefined), as viewInstance makes one from an object that is no view.  *)
(***************************************************************************)
EXTENDS Integers, Sequences, FiniteSets, TLC

VARIABLES schemas, views, strayViews, ledger, result

vars == <<schemas, views, strayViews, ledger, result>>

(***************************************************************************)
(* Bounds and input sets.                                                  *)
(***************************************************************************)
\* Schema objects in the arena, emptySchema included.
MaxVersions == 3
\* Deltas in the ledger.
MaxLedger == 2

\* Field names handed to the builders and used as property keys.
Fields == {"message", "printout"}
\* Values written.
Values == {"A", "B"}
\* A property key that is not a string (a Symbol other than ledgerSymbol).
otherSymbol == "Symbol(other)"
\* The key under which a view hands out its ledger.
ledgerSymbol == "Symbol(ledger)"
Symbols == {otherSymbol, ledgerSymbol}

\* JavaScript's undefined, as a version (emptySchema.prev) and as a value.
undefinedVersion == 0
undefined == "undefined"

\* typeof prop
typeofProp(prop) == IF prop \in Symbols THEN "symbol" ELSE "string"

(***************************************************************************)
(* Schema and its builders.                                                *)
(***************************************************************************)
noMigration == [op |-> "undefined"]

\* Mutant: the builder also writes the migration into the receiver.
newSchemaInPlace(arena, prev, migration) ==
    Append([v \in DOMAIN arena |->
               IF v = prev THEN [arena[v] EXCEPT !.migration = migration]
               ELSE arena[v]],
           [prev |-> prev, migration |-> migration])
\* new Schema(prev, migration): one more object in the arena.
newSchema(arena, prev, migration) ==
    Append(arena, [prev |-> prev, migration |-> migration])

\* export const emptySchema = new Schema(undefined, undefined)
emptySchema == 1
emptyArena == newSchema(<<>>, undefinedVersion, noMigration)

addFieldMigration(fieldName) == [op |-> "addField", fieldName |-> fieldName]
renameFieldMigration(oldName, newName) ==
    [op |-> "renameField", oldName |-> oldName, newName |-> newName]
removeFieldMigration(fieldName) == [op |-> "removeField", fieldName |-> fieldName]

\* version.prev; reading a property of undefined throws a TypeError, which
\* the callers below test for before they use prevOf.
prevOf(arena, version) == arena[version].prev
migrationOf(arena, version) == arena[version].migration

(***************************************************************************)
(* Results of functions that may throw.                                    *)
(***************************************************************************)
Ok(v) == [ok |-> TRUE, val |-> v]
Throw == [ok |-> FALSE, val |-> <<>>]

(***************************************************************************)
(* versionInheritsFrom: walk prev from the descendant while the version is *)
(* truthy.                                                                 *)
(***************************************************************************)
RECURSIVE versionInheritsFrom(_, _, _)
versionInheritsFrom(arena, descendantVersion, ancestorVersion) ==
    IF descendantVersion = undefinedVersion THEN FALSE
    ELSE IF descendantVersion = ancestorVersion THEN TRUE
    ELSE versionInheritsFrom(arena, prevOf(arena, descendantVersion), ancestorVersion)

(***************************************************************************)
(* getVersionRelationship.  A history entry is [version, direction].       *)
(***************************************************************************)
\* The upgrade loop: from targetVersion back to sourceVersion, unshifting.
\* It runs only when targetVersion inherits from sourceVersion, so the walk
\* ends at sourceVersion.
\* Mutant: the upgrade loop pushes instead of unshifting (newest first).
RECURSIVE upgradeHistoryNewestFirst(_, _, _)
upgradeHistoryNewestFirst(arena, version, sourceVersion) ==
    IF version = sourceVersion THEN <<>>
    ELSE <<[version |-> version, direction |-> "upgrade"]>>
         \o upgradeHistoryNewestFirst(arena, prevOf(arena, version), sourceVersion)

\* Mutant: the upgrade loop leaves the target version out.
RECURSIVE upgradeHistoryBelowTarget(_, _, _)
upgradeHistoryBelowTarget(arena, version, sourceVersion) ==
    IF version = sourceVersion \/ prevOf(arena, version) = sourceVersion
    THEN <<>>
    ELSE Append(upgradeHistoryBelowTarget(arena, prevOf(arena, version),
                                          sourceVersion),
                [version |-> prevOf(arena, version), direction |-> "upgrade"])
RECURSIVE upgradeHistory(_, _, _)
upgradeHistory(arena, version, sourceVersion) ==
    IF version = sourceVersion THEN <<>>
    ELSE Append(upgradeHistory(arena, prevOf(arena, version), sourceVersion),
                [version |-> version, direction |-> "upgrade"])

\* The downgrade loop: from sourceVersion back to targetVersion, pushing.
\* console.assert does not throw; when the walk passes emptySchema the
\* version becomes undefined, is pushed, and undefined.prev throws.
\* Mutant: the downgrade loop also stops when the version is undefined.
RECURSIVE downgradeHistoryStopsAtRoot(_, _, _)
downgradeHistoryStopsAtRoot(arena, version, targetVersion) ==
    IF version = targetVersion \/ version = undefinedVersion THEN Ok(<<>>)
    ELSE LET rest == downgradeHistoryStopsAtRoot(arena, prevOf(arena, version),
                                                 targetVersion)
         IN  Ok(<<[version |-> version, direction |-> "downgrade"]>> \o rest.val)

\* Mutant: the downgrade loop also lists the target version.
RECURSIVE downgradeHistoryThroughTarget(_, _, _)
downgradeHistoryThroughTarget(arena, version, targetVersion) ==
    IF version = targetVersion
    THEN Ok(<<[version |-> version, direction |-> "downgrade"]>>)
    ELSE IF version = undefinedVersion THEN Throw
    ELSE LET rest == downgradeHistoryThroughTarget(arena, prevOf(arena, version),
                                                   targetVersion)
         IN  IF rest.ok
             THEN Ok(<<[version |-> version, direction |-> "downgrade"]>> \o rest.val)
             ELSE Throw
RECURSIVE downgradeHistory(_, _, _)
downgradeHistory(arena, version, targetVersion) ==
    IF version = targetVersion THEN Ok(<<>>)
    ELSE IF version = undefinedVersion THEN Throw
    ELSE LET rest == downgradeHistory(arena, prevOf(arena, version), targetVersion)
         IN  IF rest.ok
             THEN Ok(<<[version |-> version, direction |-> "downgrade"]>> \o rest.val)
             ELSE Throw

getVersionRelationship(arena, sourceVersion, targetVersion) ==
    IF versionInheritsFrom(arena, targetVersion, sourceVersion)
    THEN Ok(upgradeHistory(arena, targetVersion, sourceVersion))
    ELSE downgradeHistory(arena, sourceVersion, targetVersion)

(***************************************************************************)
(* Deltas.                                                                 *)
(***************************************************************************)
setDelta(version, prop, value) ==
    [op |-> "set", version |-> version, prop |-> prop, value |-> value]
noOpDelta(version) ==
    [op |-> "no-op", version |-> version, prop |-> undefined, value |-> undefined]

\* { ...delta, version }
\* Mutant: a delta that is passed through keeps the tag it came with.
withVersionKeepsTag(delta, version) == delta
withVersion(delta, version) == [delta EXCEPT !.version = version]

(***************************************************************************)
(* upgradeOrDowngradeDelta: one migration step.  The addField case has no  *)
(* break, so a set delta that is not collapsed there goes on through the   *)
(* removeField case with the addField migration's fieldName.               *)
(***************************************************************************)
\* Mutant: a removed field is collapsed in both directions.
removeFieldCaseBothWays(delta, direction, version, migration) ==
    IF delta.prop = migration.fieldName
    THEN noOpDelta(version)
    ELSE withVersion(delta, version)
\* Mutant: a removed field is not collapsed on upgrade.
removeFieldCaseNoCollapse(delta, direction, version, migration) ==
    withVersion(delta, version)

removeFieldCase(delta, direction, version, migration) ==
    IF direction = "upgrade" /\ delta.prop = migration.fieldName
    THEN noOpDelta(version)
    ELSE withVersion(delta, version)

\* Mutant: an added field is not collapsed on downgrade.
addFieldCaseNoCollapse(delta, direction, version, migration) ==
    removeFieldCase(delta, direction, version, migration)

\* Mutant: the addField case ends with a break (no fall through).
addFieldCaseWithBreak(delta, direction, version, migration) ==
    IF direction = "downgrade" /\ delta.prop = migration.fieldName
    THEN noOpDelta(version)
    ELSE withVersion(delta, version)

addFieldCase(delta, direction, version, migration) ==
    IF direction = "downgrade" /\ delta.prop = migration.fieldName
    THEN noOpDelta(version)
    ELSE removeFieldCase(delta, direction, version, migration)

\* Mutant: the rename is applied on upgrade only.
renameFieldCaseUpgradeOnly(delta, direction, version, migration) ==
    IF direction = "upgrade" /\ delta.prop = migration.oldName
    THEN [withVersion(delta, version) EXCEPT !.prop = migration.newName]
    ELSE withVersion(delta, version)

\* Mutant: the rename swaps the two names in both directions.
renameFieldCaseSwap(delta, direction, version, migration) ==
    IF delta.prop = migration.oldName
    THEN [withVersion(delta, version) EXCEPT !.prop = migration.newName]
    ELSE IF delta.prop = migration.newName
    THEN [withVersion(delta, version) EXCEPT !.prop = migration.oldName]
    ELSE withVersion(delta, version)

renameFieldCase(delta, direction, version, migration) ==
    IF direction = "upgrade" /\ delta.prop = migration.oldName
    THEN [withVersion(delta, version) EXCEPT !.prop = migration.newName]
    ELSE IF direction = "downgrade" /\ delta.prop = migration.newName
    THEN [withVersion(delta, version) EXCEPT !.prop = migration.oldName]
    ELSE withVersion(delta, version)

\* Mutant: a renameField migration has no effect on the delta.
upgradeOrDowngradeDeltaNoRename(arena, delta, direction, version) ==
    LET migration == migrationOf(arena, version) IN
    IF delta.op = "no-op" THEN Ok(withVersion(delta, version))
    ELSE IF migration.op = "undefined" THEN Throw
    ELSE IF migration.op = "addField"
         THEN Ok(addFieldCase(delta, direction, version, migration))
    ELSE IF migration.op = "removeField"
         THEN Ok(removeFieldCase(delta, direction, version, migration))
    ELSE Ok(withVersion(delta, version))

\* Returns Ok(delta) or Throw (for a set delta, migration.op is read, and it
\* throws on emptySchema's undefined migration).
upgradeOrDowngradeDelta(arena, delta, direction, version) ==
    LET migration == migrationOf(arena, version) IN
    IF delta.op = "no-op" THEN Ok(withVersion(delta, version))
    ELSE IF migration.op = "undefined" THEN Throw
    ELSE IF migration.op = "addField"
         THEN Ok(addFieldCase(delta, direction, version, migration))
    ELSE IF migration.op = "removeField"
         THEN Ok(removeFieldCase(delta, direction, version, migration))
    ELSE Ok(renameFieldCase(delta, direction, version, migration))

(***************************************************************************)
(* translateDelta: fold upgradeOrDowngradeDelta over the history.          *)
(***************************************************************************)
RECURSIVE translateAlong(_, _, _)
translateAlong(arena, delta, history) ==
    IF history = <<>> THEN Ok(delta)
    ELSE LET step == upgradeOrDowngradeDelta(arena, delta, Head(history).direction,
                                             Head(history).version)
         IN  IF step.ok THEN translateAlong(arena, step.val, Tail(history))
             ELSE Throw

\* Mutant: the loop returns after the first step of the history.
translateDeltaFirstStepOnly(arena, delta, targetVersion) ==
    LET history == getVersionRelationship(arena, delta.version, targetVersion) IN
    IF history.ok
    THEN translateAlong(arena, delta,
                        IF history.val = <<>> THEN <<>> ELSE <<Head(history.val)>>)
    ELSE Throw
translateDelta(arena, delta, targetVersion) ==
    LET history == getVersionRelationship(arena, delta.version, targetVersion) IN
    IF history.ok THEN translateAlong(arena, delta, history.val) ELSE Throw

(***************************************************************************)
(* applyDelta and renderLedgerAsVersion.  A rendered state is a function   *)
(* from the property names it holds to their values.                       *)
(***************************************************************************)
emptyState == [p \in {} |-> undefined]

\* Mutant: a set does not overwrite a property the state already holds.
applyDeltaKeepsOld(instance, delta) ==
    IF delta.op = "no-op" \/ delta.prop \in DOMAIN instance THEN instance
    ELSE [p \in DOMAIN instance \cup {delta.prop} |->
            IF p = delta.prop THEN delta.value ELSE instance[p]]

\* Mutant: a no-op delta clears the instance.
applyDeltaNoOpClears(instance, delta) ==
    IF delta.op = "no-op" THEN emptyState
    ELSE [p \in DOMAIN instance \cup {delta.prop} |->
            IF p = delta.prop THEN delta.value ELSE instance[p]]
applyDelta(instance, delta) ==
    IF delta.op = "no-op" THEN instance
    ELSE [p \in DOMAIN instance \cup {delta.prop} |->
            IF p = delta.prop THEN delta.value ELSE instance[p]]

\* Mutant: ledger.reduceRight, the last delta applied first.
RECURSIVE reduceLedgerRight(_, _, _, _)
reduceLedgerRight(arena, state, deltas, version) ==
    IF deltas = <<>> THEN Ok(state)
    ELSE LET translated == translateDelta(arena, deltas[Len(deltas)], version) IN
         IF translated.ok
         THEN reduceLedgerRight(arena, applyDelta(state, translated.val),
                                SubSeq(deltas, 1, Len(deltas) - 1), version)
         ELSE Throw

\* ledger.reduce(reducer, {}), left to right; a throw in the reducer ends it.
RECURSIVE reduceLedger(_, _, _, _)
reduceLedger(arena, state, deltas, version) ==
    IF deltas = <<>> THEN Ok(state)
    ELSE LET translated == translateDelta(arena, Head(deltas), version) IN
         IF translated.ok
         THEN reduceLedger(arena, applyDelta(state, translated.val), Tail(deltas), version)
         ELSE Throw

renderLedgerAsVersion(arena, deltas, version) ==
    reduceLedger(arena, emptyState, deltas, version)

\* state[prop]
lookup(state, prop) == IF prop \in DOMAIN state THEN state[prop] ELSE undefined

(***************************************************************************)
(* Handler.get and Handler.set as functions of the ledger.                 *)
(***************************************************************************)
returned(value) == [kind |-> "returned", value |-> value]
thrown(error) == [kind |-> "thrown", value |-> error]

handlerGet(arena, deltas, version, prop) ==
    IF prop = ledgerSymbol THEN returned("ledger")
    ELSE LET state == renderLedgerAsVersion(arena, deltas, version) IN
         IF state.ok THEN returned(lookup(state.val, prop)) ELSE thrown("TypeError")

\* Mutant: the delta is put at the front of the ledger.
handlerSetUnshift(deltas, version, prop, value) ==
    IF typeofProp(prop) # "string" THEN deltas
    ELSE <<setDelta(version, prop, value)>> \o deltas

\* Mutant: the type of the key is not tested.
handlerSetAnyKey(deltas, version, prop, value) ==
    Append(deltas, setDelta(version, prop, value))
handlerSet(deltas, version, prop, value) ==
    IF typeofProp(prop) # "string" THEN deltas
    ELSE Append(deltas, setDelta(version, prop, value))

(***************************************************************************)
(* The state machine.                                                      *)
(***************************************************************************)
Versions == 1 .. Len(schemas)

Init ==
    /\ schemas = emptyArena
    /\ views = {}
    /\ strayViews = {}
    /\ ledger = <<>>
    /\ result = returned(undefined)

\* version.addField(fieldName)
addField(version, fieldName) ==
    /\ schemas' = newSchema(schemas, version, addFieldMigration(fieldName))
    /\ result' = returned("schema")
    /\ UNCHANGED <<views, strayViews, ledger>>

\* version.renameField(oldName, newName)
renameField(version, oldName, newName) ==
    /\ schemas' = newSchema(schemas, version, renameFieldMigration(oldName, newName))
    /\ result' = returned("schema")
    /\ UNCHANGED <<views, strayViews, ledger>>

\* version.removeField(fieldName)
removeField(version, fieldName) ==
    /\ schemas' = newSchema(schemas, version, removeFieldMigration(fieldName))
    /\ result' = returned("schema")
    /\ UNCHANGED <<views, strayViews, ledger>>

\* version.newInstance(initialState): a fresh ledger and a view on it, then
\* one set per key of initialState (a sequence of <<key, value>> pairs).
\* Mutant: the keys of initialState are written last key first.
RECURSIVE assignLastKeyFirst(_, _, _)
assignLastKeyFirst(deltas, version, initialState) ==
    IF initialState = <<>> THEN deltas
    ELSE handlerSet(assignLastKeyFirst(deltas, version, Tail(initialState)),
                    version, Head(initialState)[1], Head(initialState)[2])
RECURSIVE assign(_, _, _)
assign(deltas, version, initialState) ==
    IF initialState = <<>> THEN deltas
    ELSE assign(handlerSet(deltas, version, Head(initialState)[1], Head(initialState)[2]),
                version, Tail(initialState))

newInstance(version, initialState) ==
    /\ views = {}
    /\ ledger' = assign(<<>>, version, initialState)
    /\ views' = {version}
    /\ result' = returned("view")
    /\ UNCHANGED <<schemas, strayViews>>

\* The objects handed to viewInstance: a view of the instance, a view whose
\* Handler holds no ledger, an object that is no view ({}), and undefined.
viewObject(version) == [kind |-> "view", version |-> version]
strayViewObject(version) == [kind |-> "strayView", version |-> version]
plainObject == [kind |-> "object", version |-> undefinedVersion]
noObject == [kind |-> "undefined", version |-> undefinedVersion]

isObject(instance) ==
    \/ instance.kind = "view" /\ instance.version \in views
    \/ instance.kind = "strayView" /\ instance.version \in strayViews
    \/ instance.kind = "object"

\* Mutant: Handler.get has no case for ledgerSymbol.
ledgerOfNoHandle(instance) == undefined

\* instance[ledgerSymbol]: a view's get trap returns its Handler's ledger,
\* which is undefined in a stray view; a plain object has no such property.
ledgerOf(instance) ==
    IF instance.kind = "view"
    THEN handlerGet(schemas, ledger, instance.version, ledgerSymbol).value
    ELSE undefined

\* version.viewInstance(instance).  Reading a property of undefined throws;
\* console.assert(ledger !== undefined) does not, and a view is returned
\* whose Handler holds whatever instance[ledgerSymbol] gave.
viewInstance(version, instance) ==
    \/ /\ instance.kind = "undefined"
       /\ result' = thrown("TypeError")
       /\ UNCHANGED <<schemas, views, strayViews, ledger>>
    \/ /\ isObject(instance)
       /\ IF ledgerOf(instance) = "ledger"
          THEN views' = views \cup {version} /\ UNCHANGED strayViews
          ELSE strayViews' = strayViews \cup {version} /\ UNCHANGED views
       /\ result' = returned("view")
       /\ UNCHANGED <<schemas, ledger>>

\* view[prop] = value
\* Mutant: a write through a view off the line of another view is refused.
setChecksLineage(view, prop, value) ==
    /\ view \in views
    /\ LET onLine == \A u \in views :
                        \/ versionInheritsFrom(schemas, u, view)
                        \/ versionInheritsFrom(schemas, view, u)
       IN  /\ ledger' = IF onLine THEN handlerSet(ledger, view, prop, value)
                        ELSE ledger
           /\ result' = IF typeofProp(prop) # "string" \/ ~onLine
                        THEN thrown("Error") ELSE returned("true")
    /\ UNCHANGED <<schemas, views, strayViews>>
set(view, prop, value) ==
    /\ view \in views
    /\ ledger' = handlerSet(ledger, view, prop, value)
    /\ result' = IF typeofProp(prop) # "string" THEN thrown("Error") ELSE returned("true")
    /\ UNCHANGED <<schemas, views, strayViews>>

\* view[prop]
\* Mutant: a read writes each translated delta back into the ledger.
getWritesBack(view, prop) ==
    /\ view \in views
    /\ result' = handlerGet(schemas, ledger, view, prop)
    /\ ledger' = [i \in DOMAIN ledger |->
                    IF translateDelta(schemas, ledger[i], view).ok
                    THEN translateDelta(schemas, ledger[i], view).val
                    ELSE ledger[i]]
    /\ UNCHANGED <<schemas, views, strayViews>>
get(view, prop) ==
    /\ view \in views
    /\ result' = handlerGet(schemas, ledger, view, prop)
    /\ UNCHANGED <<schemas, views, strayViews, ledger>>

\* view[prop] = value on a stray view: this.ledger.push throws on undefined.
straySet(view, prop, value) ==
    /\ view \in strayViews
    /\ result' = IF typeofProp(prop) # "string" THEN thrown("Error")
                 ELSE thrown("TypeError")
    /\ UNCHANGED <<schemas, views, strayViews, ledger>>

\* view[prop] on a stray view: the ledger it hands out is undefined, and
\* rendering throws on undefined.reduce.
strayGet(view, prop) ==
    /\ view \in strayViews
    /\ result' = IF prop = ledgerSymbol THEN returned(undefined)
                 ELSE thrown("TypeError")
    /\ UNCHANGED <<schemas, views, strayViews, ledger>>

\* The initialState objects handed to newInstance: own keys in order.
InitialStates ==
    {<<>>}
    \cup {<<<<f, x>>>> : f \in Fields, x \in Values}
    \cup {i \in {<<<<f, x>>, <<g, y>>>> : f \in Fields, g \in Fields,
                                          x \in Values, y \in Values} :
            i[1][1] # i[2][1]}

\* The arena and the ledger are kept within the bounds.
roomForSchema == Len(schemas) < MaxVersions
roomForDelta == Len(ledger) < MaxLedger

Next ==
    \/ \E v \in Versions, f \in Fields : roomForSchema /\ addField(v, f)
    \/ \E v \in Versions, o \in Fields, n \in Fields :
            roomForSchema /\ renameField(v, o, n)
    \/ \E v \in Versions, f \in Fields : roomForSchema /\ removeField(v, f)
    \/ \E v \in Versions, i \in InitialStates :
            Len(i) <= MaxLedger /\ newInstance(v, i)
    \/ \E v \in Versions, i \in Versions : viewInstance(v, viewObject(i))
    \/ \E v \in Versions, p \in Fields \cup Symbols, x \in Values :
            roomForDelta /\ set(v, p, x)
    \/ \E v \in Versions, p \in Fields \cup Symbols : get(v, p)

Spec == Init /\ [][Next]_vars

(***************************************************************************)
(* The README's "tricky case": the state after its schema definitions and  *)
(* after view1 = version1.newInstance({}), view2 = version2.viewInstance(  *)
(* view1).  Reads and writes through the two views follow in any order.    *)
(***************************************************************************)
\* Deltas in the ledger of the tricky case.
MaxTrickyLedger == 5
TrickyFields == {"fieldX", "fieldY"}

\* emptySchema.addField('fieldX').addField('fieldY')
trickyVersion1 == 3
\*   .removeField('fieldY').renameField('fieldX', 'fieldY').addField('fieldX')
trickyVersion2 == 6
trickyArena ==
    newSchema(
     newSchema(
      newSchema(
       newSchema(
        newSchema(emptyArena, emptySchema, addFieldMigration("fieldX")),
        2, addFieldMigration("fieldY")),
       trickyVersion1, removeFieldMigration("fieldY")),
      4, renameFieldMigration("fieldX", "fieldY")),
     5, addFieldMigration("fieldX"))

\* The value the README writes to each field through each view:
\* 'fieldXWrittenInVersion1' (A), 'fieldYWrittenInVersion1' (B),
\* 'fieldXWrittenInVersion2' (C), 'fieldYWrittenInVersion2' (D).
trickyValue(view, prop) ==
    IF view = trickyVersion1
    THEN (IF prop = "fieldX" THEN "A" ELSE "B")
    ELSE (IF prop = "fieldX" THEN "C" ELSE "D")

InitTricky ==
    /\ schemas = trickyArena
    /\ views = {trickyVersion1, trickyVersion2}
    /\ strayViews = {}
    /\ ledger = <<>>
    /\ result = returned("view")

NextTricky ==
    \/ \E v \in views, p \in TrickyFields :
            Len(ledger) < MaxTrickyLedger /\ set(v, p, trickyValue(v, p))
    \/ \E v \in views, p \in TrickyFields : get(v, p)

SpecTricky == InitTricky /\ [][NextTricky]_vars

\* The same instance, written under any key: the two field names, a name
\* no migration mentions, and a key that is not a string.
MaxAnyKeyLedger == 3
AnyKeys == TrickyFields \cup {"fieldZ", otherSymbol}

NextTrickyAnyKey ==
    \/ \E v \in views, p \in AnyKeys, x \in Values :
            Len(ledger) < MaxAnyKeyLedger /\ set(v, p, x)
    \/ \E v \in views, p \in AnyKeys : get(v, p)

SpecTrickyAnyKey == InitTricky /\ [][NextTrickyAnyKey]_vars

(***************************************************************************)
(* The README's basic example: the state after its two schema definitions, *)
(* before the instance is made.  The instance is made on either version,   *)
(* views are made from views and from objects that are no views, and reads *)
(* and writes follow in any order.                                         *)
(***************************************************************************)
\* Deltas in the ledger of the basic example.
MaxViewsLedger == 2

\* emptySchema.addField('message')
readmeVersion1 == 2
\* version1.renameField('message', 'printout')
readmeVersion2 == 3
readmeArena ==
    newSchema(newSchema(emptyArena, emptySchema, addFieldMigration("message")),
              readmeVersion1, renameFieldMigration("message", "printout"))

InitViews ==
    /\ schemas = readmeArena
    /\ views = {}
    /\ strayViews = {}
    /\ ledger = <<>>
    /\ result = returned("schema")

NextViews ==
    \/ \E v \in Versions, i \in InitialStates :
            Len(i) <= MaxViewsLedger /\ newInstance(v, i)
    \/ \E v \in Versions, i \in views : viewInstance(v, viewObject(i))
    \/ \E v \in Versions, i \in strayViews : viewInstance(v, strayViewObject(i))
    \/ \E v \in Versions : viewInstance(v, plainObject)
    \/ \E v \in Versions : viewInstance(v, noObject)
    \/ \E v \in views, p \in Fields \cup Symbols, x \in Values :
            Len(ledger) < MaxViewsLedger /\ set(v, p, x)
    \/ \E v \in views, p \in Fields \cup Symbols : get(v, p)
    \/ \E v \in strayViews, p \in Fields \cup Symbols, x \in Values :
            straySet(v, p, x)
    \/ \E v \in strayViews, p \in Fields \cup Symbols : strayGet(v, p)

SpecViews == InitViews /\ [][NextViews]_vars

(***************************************************************************)
(* The translation functions called on their own: versions are built as in *)
(* Spec, and getVersionRelationship, translateDelta and                    *)
(* upgradeOrDowngradeDelta are applied to any recorded versions and any    *)
(* delta a ledger or a history step can hand them.  result holds the call  *)
(* and what it returned (out.ok) or that it threw (~out.ok).               *)
(***************************************************************************)
called(function, arguments, out) ==
    [kind |-> function, arguments |-> arguments, out |-> out]

\* Deltas a write can put in a ledger, and deltas a history step can yield.
LedgerDeltas ==
    {setDelta(v, p, x) : v \in Versions, p \in Fields, x \in Values}
StepDeltas == LedgerDeltas \cup {noOpDelta(v) : v \in Versions}
Directions == {"upgrade", "downgrade"}

callGetVersionRelationship(sourceVersion, targetVersion) ==
    /\ result' = called("getVersionRelationship",
                        [sourceVersion |-> sourceVersion,
                         targetVersion |-> targetVersion],
                        getVersionRelationship(schemas, sourceVersion, targetVersion))
    /\ UNCHANGED <<schemas, views, strayViews, ledger>>

callTranslateDelta(delta, targetVersion) ==
    /\ result' = called("translateDelta",
                        [delta |-> delta, targetVersion |-> targetVersion],
                        translateDelta(schemas, delta, targetVersion))
    /\ UNCHANGED <<schemas, views, strayViews, ledger>>

callUpgradeOrDowngradeDelta(delta, direction, version) ==
    /\ result' = called("upgradeOrDowngradeDelta",
                        [delta |-> delta, direction |-> direction,
                         version |-> version],
                        upgradeOrDowngradeDelta(schemas, delta, direction, version))
    /\ UNCHANGED <<schemas, views, strayViews, ledger>>

\* translateDelta(translateDelta(delta, midVersion), targetVersion): the
\* translation taken in two legs; it throws when either leg throws.
translateDeltaTwice(arena, delta, midVersion, targetVersion) ==
    LET first == translateDelta(arena, delta, midVersion) IN
    IF first.ok THEN translateDelta(arena, first.val, targetVersion) ELSE Throw

callTranslateDeltaTwice(delta, midVersion, targetVersion) ==
    /\ result' = called("translateDeltaTwice",
                        [delta |-> delta, midVersion |-> midVersion,
                         targetVersion |-> targetVersion],
                        translateDeltaTwice(schemas, delta, midVersion,
                                            targetVersion))
    /\ UNCHANGED <<schemas, views, strayViews, ledger>>

NextTranslate ==
    \/ \E v \in Versions, f \in Fields : roomForSchema /\ addField(v, f)
    \/ \E v \in Versions, o \in Fields, n \in Fields :
            roomForSchema /\ renameField(v, o, n)
    \/ \E v \in Versions, f \in Fields : roomForSchema /\ removeField(v, f)
    \/ \E s \in Versions, t \in Versions : callGetVersionRelationship(s, t)
    \/ \E d \in LedgerDeltas, t \in Versions : callTranslateDelta(d, t)
    \/ \E d \in StepDeltas, dir \in Directions, v \in Versions :
            callUpgradeOrDowngradeDelta(d, dir, v)
    \/ \E d \in LedgerDeltas, m \in Versions, t \in Versions :
            callTranslateDeltaTwice(d, m, t)

SpecTranslate == Init /\ [][NextTranslate]_vars

(***************************************************************************)
(* Vocabulary of the properties.                                           *)
(***************************************************************************)
\* What view[prop] gives in the current state.
Read(view, prop) == handlerGet(schemas, ledger, view, prop)

\* The versions reached from version by following prev, version included.
RECURSIVE Lineage(_, _)
Lineage(arena, version) ==
    IF version = undefinedVersion THEN {}
    ELSE {version} \cup Lineage(arena, arena[version].prev)

\* One of the two versions is an ancestor of the other, or they are equal.
OnOneLine(a, b) == a \in Lineage(schemas, b) \/ b \in Lineage(schemas, a)

\* later was built from earlier by one builder call recording migration.
BuiltFrom(later, earlier, migration) ==
    /\ schemas[later].prev = earlier
    /\ schemas[later].migration.op = migration.op
    /\ schemas[later].migration = migration

LastDelta == ledger[Len(ledger)]

\* The value of the last write of prop through view, undefined if none.
LastWritten(view, prop) ==
    LET written == {i \in DOMAIN ledger :
                        ledger[i].version = view /\ ledger[i].prop = prop}
    IN  IF written = {} THEN undefined
        ELSE ledger[CHOOSE i \in written : \A j \in written : j <= i].value

\* This step is a successful write through view: one delta tagged view is
\* appended to the ledger of the existing instance.
WriteThrough(view) ==
    /\ view \in views
    /\ Len(ledger') = Len(ledger) + 1
    /\ ledger'[Len(ledger')].version = view

(***************************************************************************)
(* C1  Round-trip identity: right after write(v, f, x) with a string f, a  *)
(* read of f through v returns x, whatever the ledger held before, in      *)
(* every schema whose recorded versions lie on one line with v (a chain).  *)
(***************************************************************************)
RoundTripIdentity ==
    \A v \in views :
        (/\ ledger # <<>>
         /\ LastDelta.version = v
         /\ \A i \in DOMAIN ledger : OnOneLine(ledger[i].version, v))
        => Read(v, LastDelta.prop) = returned(LastDelta.value)

\* An earlier write through another view set the same field, as seen from
\* v, to another value; the write through v replaced it and was read back.
RoundTripWitness ==
    /\ Len(ledger) = 2
    /\ ledger[1].version # ledger[2].version
    /\ LET earlier == translateDelta(schemas, ledger[1], ledger[2].version)
       IN  /\ earlier.ok
           /\ earlier.val.op = "set"
           /\ earlier.val.prop = ledger[2].prop
           /\ earlier.val.value # ledger[2].value
    /\ result = returned(ledger[2].value)
    /\ Read(ledger[2].version, ledger[2].prop) = result

(***************************************************************************)
(* C2  Rename visibility: with version2 = version1.renameField('message',  *)
(* 'printout'), after any interleaving of writes of message through view1  *)
(* and of printout through view2, view1.message and view2.printout are     *)
(* both the value of the latest of those writes, and view2.message and     *)
(* view1.printout are absent.                                              *)
(***************************************************************************)
RenameWrites(v1, v2) ==
    \A i \in DOMAIN ledger :
        \/ ledger[i].version = v1 /\ ledger[i].prop = "message"
        \/ ledger[i].version = v2 /\ ledger[i].prop = "printout"

IsRenamePair(v1, v2) ==
    /\ v1 \in views
    /\ v2 \in views
    /\ BuiltFrom(v2, v1, renameFieldMigration("message", "printout"))

RenameVisibility ==
    \A v1 \in Versions, v2 \in Versions :
        (IsRenamePair(v1, v2) /\ RenameWrites(v1, v2))
        => LET latest == IF ledger = <<>> THEN undefined ELSE LastDelta.value
           IN  /\ Read(v1, "message") = returned(latest)
               /\ Read(v2, "printout") = returned(latest)
               /\ Read(v2, "message") = returned(undefined)
               /\ Read(v1, "printout") = returned(undefined)

\* Both directions happened: a write through view1 then one through view2
\* with another value, or the other way round.
RenameWitness ==
    \E v1 \in Versions, v2 \in Versions :
        /\ IsRenamePair(v1, v2)
        /\ RenameWrites(v1, v2)
        /\ Len(ledger) = 2
        /\ ledger[1].version = v2
        /\ ledger[2].version = v1
        /\ ledger[1].value # ledger[2].value
        /\ Read(v2, "printout") = returned(ledger[2].value)

(***************************************************************************)
(* C3  The README's order-sensitive scenario.  After view1.fieldX = 'A';   *)
(* view1.fieldY = 'B': view2.fieldX is absent and view2.fieldY is 'A'.     *)
(* After then view2.fieldX = 'C'; view2.fieldY = 'D': view1.fieldX is 'D', *)
(* view1.fieldY is 'B', view2.fieldX is 'C' and view2.fieldY is 'D'.       *)
(***************************************************************************)
TrickyFirstWrites ==
    <<setDelta(trickyVersion1, "fieldX", "A"), setDelta(trickyVersion1, "fieldY", "B")>>
TrickyAllWrites ==
    TrickyFirstWrites
    \o <<setDelta(trickyVersion2, "fieldX", "C"), setDelta(trickyVersion2, "fieldY", "D")>>

OrderSensitiveScenario ==
    /\ ledger = TrickyFirstWrites
       => /\ Read(trickyVersion2, "fieldX") = returned(undefined)
          /\ Read(trickyVersion2, "fieldY") = returned("A")
    /\ ledger = TrickyAllWrites
       => /\ Read(trickyVersion1, "fieldX") = returned("D")
          /\ Read(trickyVersion1, "fieldY") = returned("B")
          /\ Read(trickyVersion2, "fieldX") = returned("C")
          /\ Read(trickyVersion2, "fieldY") = returned("D")

\* The four writes were made in the README's order and view1.fieldX was read.
OrderSensitiveWitness ==
    /\ schemas = trickyArena
    /\ ledger = TrickyAllWrites
    /\ result = returned("D")
    /\ Read(trickyVersion1, "fieldX") = result

(***************************************************************************)
(* C4  As claimed: with version2 = version1.addField(f), after any         *)
(* sequence of writes of f through the version1 view or the version2 view, *)
(* a read of f through the version1 view is absent.                        *)
(***************************************************************************)
IsAddPair(v1, v2, f) ==
    /\ v1 \in views
    /\ v2 \in views
    /\ BuiltFrom(v2, v1, addFieldMigration(f))

OnlyWritesOf(f, writers) ==
    \A i \in DOMAIN ledger : ledger[i].prop = f /\ ledger[i].version \in writers

AddedFieldAbsentHoweverWritten ==
    \A v1 \in Versions, v2 \in Versions, f \in Fields :
        (IsAddPair(v1, v2, f) /\ OnlyWritesOf(f, {v1, v2}))
        => Read(v1, f) = returned(undefined)

(***************************************************************************)
(* C4, amended: after any sequence of writes of f through the version1     *)
(* view or the version2 view, a read of f through the version1 view never  *)
(* shows a value written through the version2 view: it is the last value   *)
(* written to f through the version1 view, and absent when f was written   *)
(* through the version2 view only.                                         *)
(***************************************************************************)
AddedFieldHiddenFromOlderView ==
    \A v1 \in Versions, v2 \in Versions, f \in Fields :
        (IsAddPair(v1, v2, f) /\ OnlyWritesOf(f, {v1, v2}))
        => Read(v1, f) = returned(LastWritten(v1, f))

\* f was written through version1's view, then through version2's view with
\* another value; version1's view still reads its own value.
AddedFieldWitness ==
    \E v1 \in Versions, v2 \in Versions, f \in Fields :
        /\ IsAddPair(v1, v2, f)
        /\ OnlyWritesOf(f, {v1, v2})
        /\ Len(ledger) = 2
        /\ ledger[1].version = v1
        /\ ledger[2].version = v2
        /\ ledger[1].value # ledger[2].value
        /\ result = returned(ledger[1].value)
        /\ Read(v1, f) = result
        /\ Read(v2, f) = returned(ledger[2].value)

(***************************************************************************)
(* C5  Remove-then-upgrade collapse: with version2 = version1.removeField( *)
(* f), after any (non-empty) sequence of writes of f through the version1  *)
(* view, a read of f through a version2 view is absent and a read of f     *)
(* through the version1 view returns the last value written.               *)
(***************************************************************************)
IsRemovePair(v1, v2, f) ==
    /\ v1 \in views
    /\ v2 \in views
    /\ BuiltFrom(v2, v1, removeFieldMigration(f))

RemovedFieldCollapse ==
    \A v1 \in Versions, v2 \in Versions, f \in Fields :
        (IsRemovePair(v1, v2, f) /\ ledger # <<>> /\ OnlyWritesOf(f, {v1}))
        => /\ Read(v2, f) = returned(undefined)
           /\ Read(v1, f) = returned(LastDelta.value)

\* Two writes of f through version1's view, the second with another value.
RemovedFieldWitness ==
    \E v1 \in Versions, v2 \in Versions, f \in Fields :
        /\ IsRemovePair(v1, v2, f)
        /\ OnlyWritesOf(f, {v1})
        /\ Len(ledger) = 2
        /\ ledger[1].value # ledger[2].value
        /\ Read(v1, f) = returned(ledger[2].value)
        /\ result = returned(undefined)
        /\ Read(v2, f) = result

(***************************************************************************)
(* C6  In the README's tricky chain, once a value has been written to      *)
(* fieldY through view1, no write through view2, under any key, changes    *)
(* what view1 reads for fieldY.                                            *)
(***************************************************************************)
WrittenThrough(view, prop) ==
    \E i \in DOMAIN ledger : ledger[i].version = view /\ ledger[i].prop = prop

OldVersionDataPreserved ==
    [][(WrittenThrough(trickyVersion1, "fieldY") /\ WriteThrough(trickyVersion2))
       => handlerGet(schemas', ledger', trickyVersion1, "fieldY")
            = Read(trickyVersion1, "fieldY")]_vars

\* fieldY was written through view1, then fieldY and fieldX through view2,
\* and view1 still reads the value it wrote.
OldVersionDataWitness ==
    /\ schemas = trickyArena
    /\ Len(ledger) = 3
    /\ ledger[1].version = trickyVersion1 /\ ledger[1].prop = "fieldY"
    /\ ledger[2].version = trickyVersion2 /\ ledger[2].prop = "fieldY"
    /\ ledger[3].version = trickyVersion2 /\ ledger[3].prop = "fieldX"
    /\ ledger[2].value # ledger[1].value
    /\ ledger[3].value # ledger[1].value
    /\ result = returned(ledger[1].value)
    /\ Read(trickyVersion1, "fieldY") = result

DeltasOf(version) ==
    {setDelta(version, p, x) : p \in Fields, x \in Values} \cup {noOpDelta(version)}

Recorded(version) == \E i \in DOMAIN ledger : ledger[i].version = version

UnrelatedVersionsFail ==
    \A s \in Versions, t \in Versions :
        ~OnOneLine(s, t)
        => /\ ~getVersionRelationship(schemas, s, t).ok
           /\ \A d \in DeltasOf(s) : ~translateDelta(schemas, d, t).ok
           /\ (t \in views /\ Recorded(s))
              => \A p \in Fields \cup {otherSymbol} : Read(t, p) = thrown("TypeError")

\* A delta was written through a view of one branch and a read through a
\* view of another branch threw.
UnrelatedVersionsWitness ==
    \E s \in views, t \in views :
        /\ ~OnOneLine(s, t)
        /\ Recorded(s)
        /\ result = thrown("TypeError")
        /\ \E p \in Fields : Read(t, p) = result

(***************************************************************************)
(* C9  Idempotent path translation: for every delta d and every target t   *)
(* that is an ancestor or a descendant of d.version, translateDelta(       *)
(* translateDelta(d, t), t) equals translateDelta(d, t) in op, version     *)
(* tag, field and value.                                                   *)
(***************************************************************************)
IdempotentTranslation ==
    \A s \in Versions, t \in Versions :
        OnOneLine(s, t)
        => \A d \in DeltasOf(s) :
              LET once == translateDelta(schemas, d, t)
              IN  /\ once.ok
                  /\ translateDelta(schemas, once.val, t) = once

\* A delta written two versions above the target was rewritten on its way
\* down, and the target's view read it under the rewritten name.
IdempotentWitness ==
    \E s \in views, t \in views :
        /\ t \in Lineage(schemas, s)
        /\ t # s
        /\ schemas[s].prev # t
        /\ Len(ledger) = 1
        /\ ledger[1].version = s
        /\ LET once == translateDelta(schemas, ledger[1], t)
           IN  /\ once.ok
               /\ once.val.op = "set"
               /\ once.val.prop # ledger[1].prop
               /\ translateDelta(schemas, once.val, t) = once
               /\ result = returned(ledger[1].value)
               /\ Read(t, once.val.prop) = result

(***************************************************************************)
(* C10  The ledger is append-only: a write through a view with a string    *)
(* field appends exactly one Set delta {version: view.version, field,      *)
(* value} at the end of the ledger, and in every step (writes, reads, new  *)
(* views, new schema versions) the previous ledger is a prefix of the new  *)
(* one.                                                                    *)
(***************************************************************************)
IsPrefix(short, long) ==
    /\ Len(short) <= Len(long)
    /\ \A i \in DOMAIN short : long[i] = short[i]

LedgerAppendOnly ==
    [][/\ IsPrefix(ledger, ledger')
       /\ \A v \in Versions, p \in Fields, x \in Values :
            set(v, p, x) => ledger' = Append(ledger, setDelta(v, p, x))]_vars

\* Two different deltas were appended through two different views.
LedgerAppendWitness ==
    /\ Len(ledger) = 2
    /\ ledger[1].version # ledger[2].version
    /\ ledger[1].prop # ledger[2].prop
    /\ ledger[1].value # ledger[2].value
    /\ result = returned("true")

(***************************************************************************)
(* C11  read(view) is the left fold of the translated ledger: the mapping  *)
(* read through a view holds exactly the fields some ledger entry          *)
(* translates to a Set of, each with the value of the latest such entry,   *)
(* whichever view wrote it; entries that translate to NoOp change nothing. *)
(***************************************************************************)
TranslatedEntry(i, view) == translateDelta(schemas, ledger[i], view)

\* The ledger positions whose translation toward view is a Set of prop.
SetsOf(view, prop) ==
    {i \in DOMAIN ledger :
        /\ TranslatedEntry(i, view).ok
        /\ TranslatedEntry(i, view).val.op = "set"
        /\ TranslatedEntry(i, view).val.prop = prop}

LatestOf(positions) == CHOOSE i \in positions : \A j \in positions : j <= i

ReadIsLedgerFold ==
    \A v \in views :
        (\A i \in DOMAIN ledger : TranslatedEntry(i, v).ok)
        => LET rendered == renderLedgerAsVersion(schemas, ledger, v)
               held == {p \in AnyKeys : SetsOf(v, p) # {}}
           IN  /\ rendered.ok
               /\ DOMAIN rendered.val = held
               /\ \A p \in held :
                    rendered.val[p] = TranslatedEntry(LatestOf(SetsOf(v, p)), v).val.value
               /\ \A p \in AnyKeys \ {otherSymbol} :
                    Read(v, p) = returned(IF p \in held
                                          THEN ledger[LatestOf(SetsOf(v, p))].value
                                          ELSE undefined)

\* Three entries written through both views: seen from one view the first
\* and the last translate to a Set of the same field with different values,
\* the middle one to NoOp, and the read returned the last one's value.
ReadIsLedgerFoldWitness ==
    \E v \in views, p \in TrickyFields :
        /\ Len(ledger) = 3
        /\ SetsOf(v, p) = {1, 3}
        /\ TranslatedEntry(2, v).val.op = "no-op"
        /\ ledger[1].version # ledger[3].version
        /\ ledger[1].value # ledger[3].value
        /\ result = returned(ledger[3].value)
        /\ Read(v, p) = result

(***************************************************************************)
(* C12  viewInstance(existingView) gives a view over the very same ledger: *)
(* making the view leaves the ledger as it is and adds a view that holds   *)
(* the instance's ledger, and every later write through any view of the    *)
(* instance is seen, after translation, by the reads through every other.  *)
(***************************************************************************)
ViewSharesLedger ==
    [][/\ \A v \in Versions, i \in views :
            viewInstance(v, viewObject(i))
            => /\ ledger' = ledger
               /\ views' = views \cup {v}
               /\ strayViews' = strayViews
       /\ \A w \in views, p \in Fields, x \in Values :
            set(w, p, x)
            => \A u \in views, q \in Fields :
                 LET seen == translateDelta(schemas, setDelta(w, p, x), u).val
                 IN  handlerGet(schemas', ledger', u, q)
                       = IF seen.op = "set" /\ seen.prop = q
                         THEN returned(x)
                         ELSE Read(u, q)]_vars

\* view2 was made from view1; each wrote once, and view1 read under its own
\* name the value view2 wrote last.
ViewSharesLedgerWitness ==
    /\ views = {readmeVersion1, readmeVersion2}
    /\ strayViews = {}
    /\ Len(ledger) = 2
    /\ ledger[1] \in {setDelta(readmeVersion1, "message", x) : x \in Values}
    /\ ledger[2] \in {setDelta(readmeVersion2, "printout", x) : x \in Values}
    /\ ledger[1].value # ledger[2].value
    /\ result = returned(ledger[2].value)
    /\ Read(readmeVersion1, "message") = result

(***************************************************************************)
(* C13  newInstance(initial) on version v yields a ledger of exactly one   *)
(* Set per key of initial, in the order of its keys, each tagged v and     *)
(* carrying the key's value, with the new view as the instance's only      *)
(* view; when initial has no keys the ledger is empty and every read       *)
(* through the new view is absent.                                         *)
(***************************************************************************)
NewInstanceLedger ==
    [][\A v \in Versions, i \in InitialStates :
         newInstance(v, i)
         => /\ ledger' = [k \in 1 .. Len(i) |-> setDelta(v, i[k][1], i[k][2])]
            /\ views' = {v}
            /\ i = <<>> => /\ ledger' = <<>>
                           /\ \A p \in Fields :
                                handlerGet(schemas', ledger', v, p)
                                  = returned(undefined)]_vars

\* version1.newInstance({printout: 'A', message: 'B'}) has just returned.
NewInstanceLedgerWitness ==
    /\ result = returned("view")
    /\ views = {readmeVersion1}
    /\ ledger = <<setDelta(readmeVersion1, "printout", "A"),
                  setDelta(readmeVersion1, "message", "B")>>

(***************************************************************************)
(* C14  addField, renameField and removeField succeed for every recorded   *)
(* receiver and every field name (nothing is validated against the         *)
(* schema); each returns one new version whose prev is the receiver and    *)
(* whose migration records the call; and no step ever changes the prev or  *)
(* the migration of a version that exists.                                 *)
(***************************************************************************)
BuilderSucceeds(version, migration) ==
    /\ result' = returned("schema")
    /\ Len(schemas') = Len(schemas) + 1
    /\ schemas'[Len(schemas')] = [prev |-> version, migration |-> migration]

BuildersOnlyAppend ==
    /\ [](\A v \in Versions, f \in Fields, g \in Fields :
            /\ ENABLED addField(v, f)
            /\ ENABLED renameField(v, f, g)
            /\ ENABLED removeField(v, f))
    /\ [][/\ \A v \in Versions, f \in Fields :
               addField(v, f) => BuilderSucceeds(v, addFieldMigration(f))
          /\ \A v \in Versions, f \in Fields, g \in Fields :
               renameField(v, f, g)
               => BuilderSucceeds(v, renameFieldMigration(f, g))
          /\ \A v \in Versions, f \in Fields :
               removeField(v, f) => BuilderSucceeds(v, removeFieldMigration(f))
          /\ \A v \in Versions : schemas'[v] = schemas[v]]_vars

\* emptySchema.removeField('message').renameField('printout', 'printout')
\* has just returned: a field never added is removed, then a field that is
\* not there is renamed to itself.
BuildersOnlyAppendWitness ==
    /\ result = returned("schema")
    /\ Len(schemas) = 3
    /\ schemas[2] = [prev |-> emptySchema,
                     migration |-> removeFieldMigration("message")]
    /\ schemas[3] = [prev |-> 2,
                     migration |-> renameFieldMigration("printout", "printout")]

(***************************************************************************)
(* C15  A write through a view under a key that is not a string fails with *)
(* an error and leaves the ledger as it was: no delta is appended.         *)
(***************************************************************************)
NonStringKeyRejected ==
    [][\A v \in views, p \in AnyKeys \cup Symbols, x \in Values :
         (typeofProp(p) # "string" /\ set(v, p, x))
         => /\ result' = thrown("Error")
            /\ ledger' = ledger]_vars

\* A write under a symbol has just failed on a ledger that holds deltas.
NonStringKeyRejectedWitness ==
    /\ result = thrown("Error")
    /\ Len(ledger) = 2

(***************************************************************************)
(* C16  viewInstance called with an object that carries no ledger handle   *)
(* (an object that is not a view) fails with an error at the call and      *)
(* returns no view.                                                        *)
(***************************************************************************)
ViewInstanceRejectsNonView ==
    [][\A v \in Versions :
         viewInstance(v, plainObject)
         => /\ result'.kind = "thrown"
            /\ views' = views
            /\ strayViews' = strayViews]_vars

(***************************************************************************)
(* C17  Version-tag invariant: for every delta d of a ledger and every     *)
(* target version t that is an ancestor or a descendant of d.version (or   *)
(* d.version itself), translateDelta(d, t) returns a delta whose version   *)
(* is t.                                                                   *)
(***************************************************************************)
TranslatedDeltaTaggedWithTarget ==
    (/\ result.kind = "translateDelta"
     /\ OnOneLine(result.arguments.delta.version, result.arguments.targetVersion))
    => /\ result.out.ok
       /\ result.out.val.version = result.arguments.targetVersion

(***************************************************************************)
(* C18  AddField upgrade leaves the field unaffected: one upgrade step of  *)
(* a Set delta across a version whose migration is AddField(name) returns  *)
(* a Set with the same field and value, only the version tag changed, for  *)
(* every field, the field equal to name included.                          *)
(***************************************************************************)
AddFieldUpgradeUnaffected ==
    (/\ result.kind = "upgradeOrDowngradeDelta"
     /\ result.arguments.direction = "upgrade"
     /\ result.arguments.delta.op = "set"
     /\ migrationOf(schemas, result.arguments.version).op = "addField")
    => result.out = Ok(withVersion(result.arguments.delta,
                                   result.arguments.version))

IsUpgradeCall ==
    /\ result.kind = "getVersionRelationship"
    /\ result.arguments.sourceVersion # result.arguments.targetVersion
    /\ result.arguments.sourceVersion
         \in Lineage(schemas, result.arguments.targetVersion)

\* history is an upgrade path that climbs prev links oldest first from the
\* child of source.
ClimbsFrom(history, source) ==
    \A i \in DOMAIN history :
        /\ history[i].direction = "upgrade"
        /\ prevOf(schemas, history[i].version)
             = IF i = 1 THEN source ELSE history[i - 1].version

UpgradePathStrictlyBetween ==
    IsUpgradeCall
    => /\ result.out.ok
       /\ ClimbsFrom(result.out.val, result.arguments.sourceVersion)
       /\ {result.out.val[i].version : i \in DOMAIN result.out.val}
            = (Lineage(schemas, result.arguments.targetVersion)
                 \ Lineage(schemas, result.arguments.sourceVersion))
              \ {result.arguments.targetVersion}

(***************************************************************************)
(* C20 as the code has it: when target is a proper descendant of source,   *)
(* the path lists every version after source up to and including target,   *)
(* oldest first, each tagged upgrade; its length is the chain distance.    *)
(***************************************************************************)
UpgradePathUpToTarget ==
    IsUpgradeCall
    => /\ result.out.ok
       /\ Len(result.out.val)
            = Cardinality(Lineage(schemas, result.arguments.targetVersion))
                - Cardinality(Lineage(schemas, result.arguments.sourceVersion))
       /\ {result.out.val[i].version : i \in DOMAIN result.out.val}
            = Lineage(schemas, result.arguments.targetVersion)
                \ Lineage(schemas, result.arguments.sourceVersion)
       /\ result.out.val[Len(result.out.val)].version
            = result.arguments.targetVersion
       /\ ClimbsFrom(result.out.val, result.arguments.sourceVersion)

\* The path from emptySchema to its grandchild has just been resolved.
UpgradePathWitness ==
    /\ IsUpgradeCall
    /\ result.arguments.sourceVersion = emptySchema
    /\ prevOf(schemas, prevOf(schemas, result.arguments.targetVersion))
         = emptySchema
    /\ Len(result.out.val) = 2

(***************************************************************************)
(* C21 as stated: when source is a proper descendant of target, the path   *)
(* lists every version strictly between target and source, newest first,   *)
(* each tagged downgrade, each step taken at the listed version.           *)
(***************************************************************************)
IsDowngradeCall ==
    /\ result.kind = "getVersionRelationship"
    /\ result.arguments.sourceVersion # result.arguments.targetVersion
    /\ result.arguments.targetVersion
         \in Lineage(schemas, result.arguments.sourceVersion)

\* history is a downgrade path that descends prev links newest first and
\* ends at the child of target; every listed version has a migration.
DescendsTo(history, target) ==
    \A i \in DOMAIN history :
        /\ history[i].direction = "downgrade"
        /\ migrationOf(schemas, history[i].version) # noMigration
        /\ prevOf(schemas, history[i].version)
             = IF i = Len(history) THEN target ELSE history[i + 1].version

DowngradePathStrictlyBetween ==
    IsDowngradeCall
    => /\ result.out.ok
       /\ DescendsTo(result.out.val, result.arguments.targetVersion)
       /\ {result.out.val[i].version : i \in DOMAIN result.out.val}
            = (Lineage(schemas, result.arguments.sourceVersion)
                 \ Lineage(schemas, result.arguments.targetVersion))
              \ {result.arguments.sourceVersion}

(***************************************************************************)
(* C21 as the code has it: when source is a proper descendant of target,   *)
(* the path lists source and every version below it down to the child of   *)
(* target (source included, target excluded), newest first, each tagged    *)
(* downgrade; its length is the chain distance, and each step is taken at  *)
(* a version that a migration produced from the next one listed.           *)
(***************************************************************************)
DowngradePathFromSource ==
    IsDowngradeCall
    => /\ result.out.ok
       /\ Len(result.out.val)
            = Cardinality(Lineage(schemas, result.arguments.sourceVersion))
                - Cardinality(Lineage(schemas, result.arguments.targetVersion))
       /\ {result.out.val[i].version : i \in DOMAIN result.out.val}
            = Lineage(schemas, result.arguments.sourceVersion)
                \ Lineage(schemas, result.arguments.targetVersion)
       /\ result.out.val[1].version = result.arguments.sourceVersion
       /\ DescendsTo(result.out.val, result.arguments.targetVersion)

\* The path from a grandchild of emptySchema down to emptySchema has just
\* been resolved.
DowngradePathWitness ==
    /\ IsDowngradeCall
    /\ result.arguments.targetVersion = emptySchema
    /\ prevOf(schemas, prevOf(schemas, result.arguments.sourceVersion))
         = emptySchema
    /\ Len(result.out.val) = 2

(***************************************************************************)
(* C22  NoOp is absorbing and inert: once a ledger entry has collapsed to  *)
(* NoOp at some step of its path toward a view, every later step of that   *)
(* path returns NoOp tagged with that step's version; and when an entry    *)
(* translates to NoOp the mapping a read renders equals the mapping        *)
(* rendered from the ledger with that entry removed.                       *)
(***************************************************************************)
\* The delta after the first k steps of history.
AfterSteps(delta, history, k) ==
    translateAlong(schemas, delta, SubSeq(history, 1, k))

WithoutEntry(i) == SubSeq(ledger, 1, i - 1) \o SubSeq(ledger, i + 1, Len(ledger))

NoOpAbsorbingAndInert ==
    \A v \in views, i \in DOMAIN ledger :
        LET history == getVersionRelationship(schemas, ledger[i].version, v)
        IN  history.ok
            => /\ \A k \in DOMAIN history.val, j \in DOMAIN history.val :
                    (/\ k <= j
                     /\ AfterSteps(ledger[i], history.val, k).ok
                     /\ AfterSteps(ledger[i], history.val, k).val.op = "no-op")
                    => AfterSteps(ledger[i], history.val, j)
                         = Ok(noOpDelta(history.val[j].version))
               /\ (/\ TranslatedEntry(i, v).ok
                   /\ TranslatedEntry(i, v).val.op = "no-op")
                  => renderLedgerAsVersion(schemas, ledger, v)
                       = renderLedgerAsVersion(schemas, WithoutEntry(i), v)

\* fieldX then fieldY were written through view1; on its way up to view2
\* the second write collapses at the first step and takes two more steps
\* as a NoOp, and view2 has just read the first write under fieldY.
NoOpAbsorbingWitness ==
    /\ ledger = <<setDelta(trickyVersion1, "fieldX", "A"),
                  setDelta(trickyVersion1, "fieldY", "B")>>
    /\ AfterSteps(ledger[2],
                  getVersionRelationship(schemas, trickyVersion1,
                                         trickyVersion2).val, 1).val.op = "no-op"
    /\ result = returned("A")
    /\ Read(trickyVersion2, "fieldY") = result

(***************************************************************************)
(* C23  Every single translation step returns a delta tagged with the      *)
(* step's version, whether it rewrote the field, collapsed the delta to    *)
(* NoOp or passed it through; so after each iteration of translateDelta's  *)
(* loop the delta's version is the version of that iteration.              *)
(***************************************************************************)
StepTagsWithStepVersion ==
    /\ (result.kind = "upgradeOrDowngradeDelta" /\ result.out.ok)
       => result.out.val.version = result.arguments.version
    /\ result.kind = "translateDelta"
       => LET history == getVersionRelationship(schemas,
                             result.arguments.delta.version,
                             result.arguments.targetVersion)
          IN  history.ok
              => \A k \in DOMAIN history.val :
                    AfterSteps(result.arguments.delta, history.val, k).ok
                    => AfterSteps(result.arguments.delta, history.val, k).val.version
                         = history.val[k].version

\* A delta has just been translated along a path of two steps, the first
\* of which renamed its field.
StepTagsWitness ==
    /\ result.kind = "translateDelta"
    /\ result.out.ok
    /\ LET history == getVersionRelationship(schemas,
                          result.arguments.delta.version,
                          result.arguments.targetVersion).val
       IN  /\ Len(history) = 2
           /\ AfterSteps(result.arguments.delta, history, 1).val.op = "set"
           /\ AfterSteps(result.arguments.delta, history, 1).val.prop
                # result.arguments.delta.prop

(***************************************************************************)
(* C24  A read leaves the ledger unchanged: after a read through any view  *)
(* the ledger has the same length and every entry keeps the version tag,   *)
(* field and value it was recorded with; so the same read made again with  *)
(* no write in between returns the same result.                            *)
(***************************************************************************)
ReadLeavesLedger ==
    [][\A v \in views, p \in Fields \cup Symbols :
         get(v, p)
         => /\ Len(ledger') = Len(ledger)
            /\ \A i \in DOMAIN ledger :
                 /\ ledger'[i].version = ledger[i].version
                 /\ ledger'[i].prop = ledger[i].prop
                 /\ ledger'[i].value = ledger[i].value
            /\ views' = views
            /\ handlerGet(schemas', ledger', v, p) = result']_vars

\* view2 has just read under printout the value that view1 wrote under
\* message, and the entry still carries view1's version and name.
ReadLeavesLedgerWitness ==
    /\ ledger = <<setDelta(readmeVersion1, "message", "A")>>
    /\ readmeVersion2 \in views
    /\ result = returned("A")
    /\ Read(readmeVersion2, "printout") = result

(***************************************************************************)
(* C25  Same-direction translation composes: for versions S, M, T on one   *)
(* ancestor line with M strictly between S and T (S older than M older     *)
(* than T, or S newer than M newer than T) and every delta d tagged S,     *)
(* translateDelta(translateDelta(d, M), T) has the same op, field and      *)
(* value as translateDelta(d, T).                                          *)
(***************************************************************************)
ProperAncestor(a, d) == a # d /\ a \in Lineage(schemas, d)

Payload(delta) == <<delta.op, delta.prop, delta.value>>

IsTwoLegCall ==
    /\ result.kind = "translateDeltaTwice"
    /\ LET S == result.arguments.delta.version
           M == result.arguments.midVersion
           T == result.arguments.targetVersion
       IN  \/ ProperAncestor(S, M) /\ ProperAncestor(M, T)
           \/ ProperAncestor(T, M) /\ ProperAncestor(M, S)

TwoLegsEqualOne ==
    IsTwoLegCall
    => LET direct == translateDelta(schemas, result.arguments.delta,
                                    result.arguments.targetVersion)
       IN  /\ direct.ok
           /\ result.out.ok
           /\ Payload(result.out.val) = Payload(direct.val)

\* A delta written at a grandchild of emptySchema has just been taken down
\* to emptySchema in two legs, and its field was renamed on the way.
TwoLegsWitness ==
    /\ IsTwoLegCall
    /\ result.arguments.targetVersion = emptySchema
    /\ result.out.ok
    /\ result.out.val.op = "set"
    /\ result.out.val.prop # result.arguments.delta.prop

(***************************************************************************)
(* C26  A write never checks lineage: a write with a string key through    *)
(* any view of the instance, one on a different branch from the other      *)
(* views included, is accepted and appended; from then on every read       *)
(* through a view whose version is neither an ancestor nor a descendant of *)
(* that write's version fails, and no later step makes such a view         *)
(* readable again.                                                         *)
(***************************************************************************)
\* The ledger holds a delta written at a version off the line of view.
OffLineEntry(view) ==
    \E i \in DOMAIN ledger : ~OnOneLine(ledger[i].version, view)

WriteNeverChecksLineage ==
    /\ [](\A u \in views :
            OffLineEntry(u)
            => \A p \in Fields : Read(u, p) = thrown("TypeError"))
    /\ [][/\ \A w \in views, p \in Fields, x \in Values :
               set(w, p, x)
               => /\ ledger' = Append(ledger, setDelta(w, p, x))
                  /\ result' = returned("true")
          /\ \A u \in views :
               OffLineEntry(u) => (u \in views' /\ OffLineEntry(u)')]_vars

\* Two views on sibling versions have each written once, the second write
\* after the first had made its view unreadable, and a read has just failed.
WriteNeverChecksLineageWitness ==
    /\ Len(schemas) = 3
    /\ prevOf(schemas, 2) = emptySchema
    /\ prevOf(schemas, 3) = emptySchema
    /\ views = {2, 3}
    /\ Len(ledger) = 2
    /\ ledger[1].version = 2
    /\ ledger[2].version = 3
    /\ result = thrown("TypeError")

====
